---- MODULE Spec2Model ----
(***************************************************************************)
(* Model of fetch_data.py: main() evaluates a dictionary literal whose 17  *)
(* entries each call one fetch function, then writes the dictionary to     *)
(* data.json.  Every fetch function talks to one or two external endpoints *)
(* inside a try/except and returns a {"value", "date"} dictionary.         *)
(*                                                                         *)
(* Python values are tagged records: Null, Num(n, d) (the rational n/d),   *)
(* Str(s), List(items), Dict(fields).  The evaluation of a function body   *)
(* is an outcome: Ret(v) (a return statement was executed), Raise(e) (an   *)
(* exception is propagating) or Fall (the end of the try block was reached *)
(* without a return).                                                      *)
(***************************************************************************)
EXTENDS Integers, Sequences, FiniteSets, TLC

VARIABLES METALPRICE_API_KEY, pc, idx, at, frame, inflight, log, started,
          data, last_updated, file, opens, runs, faults, budget,
          cpi_links, cpi_pick

vars == <<METALPRICE_API_KEY, pc, idx, at, frame, inflight, log, started,
          data, last_updated, file, opens, runs, faults, budget,
          cpi_links, cpi_pick>>

\* ------------------------------------------------------------- bounds
\* Fetches of one run of main() that meet an answer other than the nominal one
MaxFaults == 2
\* Runs of main(), one after the other, and the fetches that meet such an
\* answer over all of them
MaxRuns == 2
MaxRunFaults == 1
\* Length of the list of CPI links drawn for the link selection.
MaxLinks == 2

\* ------------------------------------------------------ Python values
Null == [t |-> "null"]
Num(n, d) == [t |-> "num", n |-> n, d |-> d]
Str(s) == [t |-> "str", s |-> s]
List(items) == [t |-> "list", items |-> items]
Dict(fields) == [t |-> "dict", fields |-> fields]

Ret(v) == [k |-> "ret", v |-> v]
Raise(e) == [k |-> "raise", e |-> e]
Fall == [k |-> "fall"]

\* bool(v)
Truthy(v) ==
    CASE v.t = "null" -> FALSE
      [] v.t = "num" -> v.n # 0
      [] v.t = "str" -> v.s # ""
      [] v.t = "list" -> Len(v.items) > 0
      [] v.t = "dict" -> DOMAIN v.fields # {}

\* len(v): Ret(an integer) or Raise
PyLen(v) ==
    CASE v.t = "list" -> Ret(Len(v.items))
      [] v.t = "dict" -> Ret(Cardinality(DOMAIN v.fields))
      [] v.t = "str" -> Ret(Len(v.s))
      [] OTHER -> Raise("TypeError")

\* v[i] for an integer i >= 0
PyIndex(v, i) ==
    CASE v.t = "list" -> IF i + 1 <= Len(v.items) THEN Ret(v.items[i + 1]) ELSE Raise("IndexError")
      [] v.t = "dict" -> Raise("KeyError")
      [] v.t = "str" -> IF i + 1 <= Len(v.s) THEN Ret(Str(SubSeq(v.s, i + 1, i + 1))) ELSE Raise("IndexError")
      [] OTHER -> Raise("TypeError")

\* v[key] for a string key
PyKey(v, key) ==
    CASE v.t = "dict" -> IF key \in DOMAIN v.fields THEN Ret(v.fields[key]) ELSE Raise("KeyError")
      [] OTHER -> Raise("TypeError")

\* Two digits, zero padded.
Pad2(n) == IF n < 10 THEN "0" \o ToString(n) ELSE ToString(n)

\* f"{x:.2f}" of the rational n/d, n >= 0, d > 0, whose third decimal is 0
Fixed2(n, d) ==
    ToString(n \div d) \o "." \o
    Pad2(IF d % 100 = 0 THEN (n % d) \div (d \div 100) ELSE ((n % d) * 100) \div d)

\* f"{prefix}{val:.2f}{suffix}" of a Python value: only a number formats
Format2(prefix, val, suffix) ==
    CASE val.t = "num" -> Ret(Str(prefix \o Fixed2(val.n, val.d) \o suffix))
      [] val.t = "str" -> Raise("ValueError")
      [] OTHER -> Raise("TypeError")

\* A calendar date, and datetime.min
Date(y, m, d) == [y |-> y, m |-> m, d |-> d]
datetime_min == Date(1, 1, 1)

IsLeap(y) == (y % 4 = 0 /\ y % 100 # 0) \/ y % 400 = 0
DaysInMonth(y, m) ==
    CASE m \in {1, 3, 5, 7, 8, 10, 12} -> 31
      [] m \in {4, 6, 9, 11} -> 30
      [] OTHER -> IF IsLeap(y) THEN 29 ELSE 28

\* datetime(year, mon, day): the date, or ValueError
datetime(y, m, d) ==
    IF m \in 1..12 /\ d >= 1 /\ d <= DaysInMonth(y, m) THEN Ret(Date(y, m, d)) ELSE Raise("ValueError")

\* dt.strftime("%Y-%m-%d") for a year of four digits
strftime(dt) == ToString(dt.y) \o "-" \o Pad2(dt.m) \o "-" \o Pad2(dt.d)

\* The order of datetime values
DateKey(dt) == dt.y * 10000 + dt.m * 100 + dt.d

\* datetime.fromtimestamp(ts) for ts >= 0 seconds since the epoch, in UTC
fromtimestamp(ts) ==
    LET z == (ts \div 86400) + 719468
        era == z \div 146097
        doe == z - era * 146097
        yoe == (doe - doe \div 1460 + doe \div 36524 - doe \div 146096) \div 365
        doy == doe - (365 * yoe + yoe \div 4 - yoe \div 100)
        mp == (5 * doy + 2) \div 153
        d == doy - (153 * mp + 2) \div 5 + 1
        m == IF mp < 10 THEN mp + 3 ELSE mp - 9
        y == yoe + era * 400 + (IF m <= 2 THEN 1 ELSE 0)
    IN Date(y, m, d)

\* The placeholder every fetch function degrades to
PlaceholderWithoutDate == Dict([value |-> Str("N/A")])
Placeholder == Dict([value |-> Str("N/A"), date |-> Str("N/A")])
Record(value, date) == Dict([value |-> value, date |-> date])

\* ------------------------------------------------------ HTTP responses
\* requests.get(...) raises, or returns a response whose body is JSON, or not
NetError == [net |-> "error"]
NonJSON == [net |-> "ok", json |-> FALSE]
Json(v) == [net |-> "ok", json |-> TRUE, v |-> v]

\* requests.get(url, timeout=...).json()
get_json(resp) ==
    IF resp.net = "error" THEN Raise("RequestException")
    ELSE IF ~resp.json THEN Raise("JSONDecodeError")
    ELSE Ret(resp.v)

\* try: body  except Exception as e: print(...)  -- the exception is swallowed
\* and control falls to the statement after the try.
TryExceptRequestsOnly(outcome) ==
    IF outcome.k = "raise" /\ outcome.e = "RequestException" THEN Fall ELSE outcome
TryExcept(outcome) == IF outcome.k = "raise" THEN Fall ELSE outcome

\* The  return {"value": "N/A", "date": "N/A"}  that follows a try block
OrPlaceholder(outcome) == IF outcome.k = "fall" THEN Ret(Placeholder) ELSE outcome

\* Sequencing of evaluations: an exception in the first ends the second
Bind(o, F(_)) == IF o.k = "ret" THEN F(o.v) ELSE o

\* --------------------------------------------------- get_worldbank_data
\* if val is None: return {"value": "N/A", "date": "N/A"}
NullObservationKeepsDate(date) == Record(Str("N/A"), date)
NullObservation(date) == Placeholder

\* The try block of get_worldbank_data, given what requests.get answered
worldbank_try(resp, is_gdp) ==
    Bind(get_json(resp), LAMBDA res:
    Bind(PyLen(res), LAMBDA n:
      IF ~(n > 1) THEN Fall ELSE
      Bind(PyIndex(res, 1), LAMBDA res1:
        IF ~Truthy(res1) THEN Fall ELSE
        Bind(PyIndex(res1, 0), LAMBDA row:
        Bind(PyKey(row, "value"), LAMBDA val:
        Bind(PyKey(row, "date"), LAMBDA date:
          IF val = Null THEN Ret(NullObservation(date))
          ELSE IF is_gdp
            THEN IF val.t # "num" THEN Raise("TypeError")
                 ELSE Bind(Format2("$", Num(val.n, val.d * 1000000000), "B"),
                           LAMBDA s: Ret(Record(s, date)))
            ELSE Bind(Format2("", val, "%"), LAMBDA s: Ret(Record(s, date)))))))))

get_worldbank_data(resp, is_gdp) == OrPlaceholder(TryExcept(worldbank_try(resp, is_gdp)))

\* ------------------------------------------------------- get_eodhd_bond
eodhd_try(resp) ==
    Bind(get_json(resp), LAMBDA res:
      IF ~(Truthy(res) /\ res.t = "list" /\ Len(res.items) > 0) THEN Fall ELSE
      Bind(PyIndex(res, 0), LAMBDA row:
      Bind(PyKey(row, "close"), LAMBDA val:
      Bind(PyKey(row, "date"), LAMBDA date:
      Bind(Format2("", val, "%"), LAMBDA s: Ret(Record(s, date)))))))

get_eodhd_bond(resp) == OrPlaceholder(TryExcept(eodhd_try(resp)))

\* ---------------------------------------------------- get_yfinance_data
\* yf.Ticker(t).history(period="1d") raises, or returns a frame of rows
YfError == [yf |-> "error"]
Hist(rows) == [yf |-> "ok", rows |-> rows]

yfinance_try(resp, prefix) ==
    IF resp.yf = "error" THEN Raise("Exception")
    ELSE IF resp.rows = <<>> THEN Fall
    ELSE LET last == resp.rows[Len(resp.rows)]
         IN Bind(Format2(prefix, last.Close, ""),
                 LAMBDA s: Ret(Record(s, Str(strftime(last.Date)))))

get_yfinance_data(resp, prefix) == OrPlaceholder(TryExcept(yfinance_try(resp, prefix)))

\* ------------------------------------------------------ get_metal_price
\* if METALPRICE_API_KEY:
KeyNotNone(key) == key # Null
KeyPresent(key) == Truthy(key)

\* The try block of get_metal_price
metal_try(resp, symbol) ==
    Bind(get_json(resp), LAMBDA res:
    Bind(PyKey(res, "rates"), LAMBDA rates:
    Bind(PyKey(rates, symbol), LAMBDA rate:
    Bind(PyKey(res, "timestamp"), LAMBDA ts:
      IF ts.t # "num" THEN Raise("TypeError")
      ELSE IF rate.t # "num" THEN Raise("TypeError")
      ELSE IF rate.n = 0 THEN Raise("ZeroDivisionError")
      ELSE Bind(Format2("$", Num(rate.d, rate.n), ""),
                LAMBDA s: Ret(Record(s, Str(strftime(fromtimestamp(ts.n \div ts.d))))))))))

\* The metals API attempt: a result, or Fall when the except clause ran and
\* control reaches  return get_yfinance_data(fallback_ticker, "$")
metal_attempt(resp, symbol) == TryExcept(metal_try(resp, symbol))

\* ------------------------------------------------------ get_brent_crude
\* if data["value"] != "N/A": return data
PrimaryAlwaysUsable(d) == TRUE
PrimaryUsable(d) == d.fields.value # Str("N/A")

FullMonths == <<"January", "February", "March", "April", "May", "June", "July",
                "August", "September", "October", "November", "December">>

\* datetime.strptime(date_str, "%B %d, %Y") of the words month, day, year
strptime(month, day, year) ==
    IF \E i \in 1..12 : FullMonths[i] = month
    THEN datetime(year, CHOOSE i \in 1..12 : FullMonths[i] = month, day)
    ELSE Raise("ValueError")

\* The Trading Economics page: requests.get raises, or the page text, of
\* which the model keeps what re.search finds: m (whether it matched), the
\* price of group 1 and the month word, day and year of group 2
brent_fallback_try(resp) ==
    IF resp.net = "error" THEN Raise("RequestException")
    ELSE IF ~resp.m THEN Fall
    ELSE Bind(strptime(resp.month, resp.day, resp.year), LAMBDA dt:
         Bind(Format2("$", resp.price, ""), LAMBDA s: Ret(Record(s, Str(strftime(dt))))))

brent_fallback(resp) == OrPlaceholder(TryExcept(brent_fallback_try(resp)))

\* ------------------------------------------------ _parse_date_from_url
\* A URL is a sequence of tokens: one token per digit, one per month word,
\* one per other stretch of text.
Digits == {"0", "1", "2", "3", "4", "5", "6", "7", "8", "9"}
DigitVal(c) == CHOOSE n \in 0..9 : ToString(n) = c

\* months[word.lower()] for the words the pattern (Jan|Feb|...|Dec) matches
\* under re.I, in the spellings the model's URLs use
months ==
    [w \in {"Jan", "Feb", "Mar", "Apr", "May", "Jun", "Jul", "Aug", "Sep", "Sept",
            "Oct", "Nov", "Dec", "JAN", "MAR", "dec"} |->
        CASE w \in {"Jan", "JAN"} -> 1
          [] w = "Feb" -> 2
          [] w \in {"Mar", "MAR"} -> 3
          [] w = "Apr" -> 4
          [] w = "May" -> 5
          [] w = "Jun" -> 6
          [] w = "Jul" -> 7
          [] w = "Aug" -> 8
          [] w \in {"Sep", "Sept"} -> 9
          [] w = "Oct" -> 10
          [] w = "Nov" -> 11
          [] w \in {"Dec", "dec"} -> 12]

IsDigit(url, i) == i >= 1 /\ i <= Len(url) /\ url[i] \in Digits
IsMonth(url, i) == i >= 1 /\ i <= Len(url) /\ url[i] \in DOMAIN months
TwoDigits(url, i) == 10 * DigitVal(url[i]) + DigitVal(url[i + 1])

\* (\d{1,2})(Jan|...|Dec)(\d{2}) matched at token i with a day of n digits
DayMonthYearAt(url, i, n) ==
    /\ \A j \in i..(i + n - 1) : IsDigit(url, j)
    /\ IsMonth(url, i + n)
    /\ IsDigit(url, i + n + 1) /\ IsDigit(url, i + n + 2)

\* (Jan|...|Dec)(\d{2}) matched at token i
MonthYearAt(url, i) == IsMonth(url, i) /\ IsDigit(url, i + 1) /\ IsDigit(url, i + 2)

\* re.search: the leftmost match, the greedy \d{1,2} taking two digits first
_parse_date_from_url(url) ==
    LET starts1 == {i \in 1..Len(url) : DayMonthYearAt(url, i, 2) \/ DayMonthYearAt(url, i, 1)}
        starts2 == {i \in 1..Len(url) : MonthYearAt(url, i)}
    IN IF starts1 # {}
       THEN LET i == CHOOSE k \in starts1 : \A j \in starts1 : k <= j
                n == IF DayMonthYearAt(url, i, 2) THEN 2 ELSE 1
                day == IF n = 2 THEN TwoDigits(url, i) ELSE DigitVal(url[i])
                mon == months[url[i + n]]
                year == 2000 + TwoDigits(url, i + n + 1)
            IN datetime(year, mon, day)
       ELSE IF starts2 # {}
       THEN LET i == CHOOSE k \in starts2 : \A j \in starts2 : k <= j
                mon == months[url[i]]
                year == 2000 + TwoDigits(url, i + 1)
            IN datetime(year, mon, 1)
       ELSE Ret(datetime_min)

\* ------------------------------------------------ _extract_cpi_from_pdf
\* The PDF download: requests.get raises, or bytes that pdfplumber cannot
\* open, or a PDF of whose text the model keeps what the two re.search find:
\* infl, the number after "All India ... Inflation" (<<>> when no match), and
\* my, the <<month word, year>> (<<>> when no match)
NotPdf == [net |-> "ok", pdf |-> FALSE]
PdfText(infl, my) == [net |-> "ok", pdf |-> TRUE, infl |-> infl, my |-> my]

extract_try(resp, pdf_url) ==
    IF resp.net = "error" THEN Raise("RequestException")
    ELSE IF ~resp.pdf THEN Raise("PDFSyntaxError")
    ELSE
      Bind(IF resp.infl # <<>> THEN Format2("", resp.infl[1], "%") ELSE Ret(Str("N/A")),
           LAMBDA value:
      Bind(IF resp.my # <<>>
             THEN Ret(Str(resp.my[1] \o " " \o ToString(resp.my[2])))
             ELSE Bind(_parse_date_from_url(pdf_url), LAMBDA dt:
                    Ret(IF dt # datetime_min THEN Str(strftime(dt)) ELSE Str("N/A"))),
           LAMBDA date_str: Ret(Record(value, date_str))))

_extract_cpi_from_pdf(resp, pdf_url) == OrPlaceholder(TryExcept(extract_try(resp, pdf_url)))

\* ------------------------------------------------- get_mospi_cpi_latest
\* links = [l for l in links if "CPI" in l.upper()]
HasCPI(l) == \E i \in 1..Len(l) : l[i] \in {"CPI", "cpi", "Cpi"}
FilterCPI(ls) == SelectSeq(ls, HasCPI)

\* normalize(link): the first token of a link says how it starts
normalize(l) ==
    IF l # <<>> /\ l[1] \in {"http://host/", "https://host/"} THEN l
    ELSE IF l # <<>> /\ l[1] = "//host/" THEN <<"https:">> \o l
    ELSE IF l # <<>> /\ l[1] = "/" THEN <<"https://www.mospi.gov.in">> \o l
    ELSE <<"https://www.mospi.gov.in/">> \o l

\* max(links, key=_parse_date_from_url): the key of every link is computed
\* (an exception in one ends the call), the first link of the largest key wins
max_by_date(links) ==
    IF \E i \in 1..Len(links) : _parse_date_from_url(links[i]).k = "raise"
    THEN Raise("ValueError")
    ELSE LET key(i) == DateKey(_parse_date_from_url(links[i]).v)
             best == CHOOSE i \in 1..Len(links) :
                        /\ \A j \in 1..Len(links) : key(j) <= key(i)
                        /\ \A j \in 1..(i - 1) : key(j) < key(i)
         IN Ret(links[best])

\* The index page: requests.get raises, or the page text, of which the model
\* keeps the hrefs that re.findall(r'href="([^"]+\.pdf)"') finds
Page(hrefs) == [net |-> "ok", hrefs |-> hrefs]

\* get_mospi_cpi_latest up to the call of _extract_cpi_from_pdf:
\* Ret(Placeholder) when there is no link, Raise, or the call with latest_url
latest_url_try(resp) ==
    IF resp.net = "error" THEN Raise("RequestException")
    ELSE LET links == [i \in 1..Len(FilterCPI(resp.hrefs)) |-> normalize(FilterCPI(resp.hrefs)[i])]
         IN IF Len(FilterCPI(resp.hrefs)) = 0 THEN Ret(Placeholder)
            ELSE Bind(max_by_date(links), LAMBDA u: [k |-> "call", url |-> u])

\* ------------------------------------------------------------ main()
\* The entries of the dictionary literal, in the order Python evaluates them
Metrics == <<
    [group |-> "india", metric |-> "GDP", fn |-> "get_worldbank_data", a1 |-> "IN", a2 |-> "NY.GDP.MKTP.CD", is_gdp |-> TRUE],
    [group |-> "india", metric |-> "Debt", fn |-> "get_worldbank_data", a1 |-> "IN", a2 |-> "GC.DOD.TOTL.GD.ZS", is_gdp |-> FALSE],
    [group |-> "india", metric |-> "Fiscal deficit (% of GDP)", fn |-> "get_worldbank_data", a1 |-> "IN", a2 |-> "GC.NLD.TOTL.GD.ZS", is_gdp |-> FALSE],
    [group |-> "india", metric |-> "CPI", fn |-> "get_mospi_cpi_latest", a1 |-> "", a2 |-> "", is_gdp |-> FALSE],
    [group |-> "india", metric |-> "10 yr bond yield", fn |-> "get_eodhd_bond", a1 |-> "IN10Y", a2 |-> "", is_gdp |-> FALSE],
    [group |-> "india", metric |-> "Mkt Cap NSE", fn |-> "get_yfinance_data", a1 |-> "^NSEI", a2 |-> "", is_gdp |-> FALSE],
    [group |-> "us", metric |-> "GDP", fn |-> "get_worldbank_data", a1 |-> "US", a2 |-> "NY.GDP.MKTP.CD", is_gdp |-> TRUE],
    [group |-> "us", metric |-> "Debt", fn |-> "get_worldbank_data", a1 |-> "US", a2 |-> "GC.DOD.TOTL.GD.ZS", is_gdp |-> FALSE],
    [group |-> "us", metric |-> "10 yr bond yield", fn |-> "get_eodhd_bond", a1 |-> "US10Y", a2 |-> "", is_gdp |-> FALSE],
    [group |-> "us", metric |-> "Mkt Cap (Index proxy)", fn |-> "get_yfinance_data", a1 |-> "^GSPC", a2 |-> "", is_gdp |-> FALSE],
    [group |-> "china", metric |-> "GDP", fn |-> "get_worldbank_data", a1 |-> "CN", a2 |-> "NY.GDP.MKTP.CD", is_gdp |-> TRUE],
    [group |-> "china", metric |-> "Debt", fn |-> "get_worldbank_data", a1 |-> "CN", a2 |-> "GC.DOD.TOTL.GD.ZS", is_gdp |-> FALSE],
    [group |-> "china", metric |-> "10 yr bond yield", fn |-> "get_eodhd_bond", a1 |-> "CN10Y", a2 |-> "", is_gdp |-> FALSE],
    [group |-> "china", metric |-> "Mkt Cap (Index proxy)", fn |-> "get_yfinance_data", a1 |-> "000001.SS", a2 |-> "", is_gdp |-> FALSE],
    [group |-> "commodities", metric |-> "Gold price", fn |-> "get_metal_price", a1 |-> "XAU", a2 |-> "GC=F", is_gdp |-> FALSE],
    [group |-> "commodities", metric |-> "Silver price", fn |-> "get_metal_price", a1 |-> "XAG", a2 |-> "SI=F", is_gdp |-> FALSE],
    [group |-> "commodities", metric |-> "Brent crude", fn |-> "get_brent_crude", a1 |-> "", a2 |-> "", is_gdp |-> FALSE] >>

NMetrics == Len(Metrics)

\* {"metric": name, **result}: the keys of result win over the literal's
MergeRecord(name, result) ==
    Dict([key \in {"metric"} \cup DOMAIN result.fields |->
            IF key \in DOMAIN result.fields THEN result.fields[key] ELSE Str(name)])

\* The records of one group, in the order of the literal
GroupRecords(recs, g) ==
    LET ix == SelectSeq([i \in 1..Len(recs) |-> i], LAMBDA i : Metrics[i].group = g)
    IN List([j \in 1..Len(ix) |-> recs[ix[j]]])

\* The dictionary main() builds
Snapshot(stamp, recs) ==
    Dict([last_updated |-> stamp,
          india |-> GroupRecords(recs, "india"),
          us |-> GroupRecords(recs, "us"),
          china |-> GroupRecords(recs, "china"),
          commodities |-> GroupRecords(recs, "commodities")])

\* datetime.now(ist).strftime(...): the reading of the clock at the run's start
Now == Str("T" \o ToString(runs + 1))

\* open("data.json", "w") truncates the file; json.dump writes one document
OpenAppend(contents) == contents
OpenW(contents) == <<>>
Dump(contents, doc) == Append(contents, doc)

\* ------------------------------------------------------------ requests
\* timeout= of a requests.get call; history(period="1d") passes none
TimeoutOnlyOnJson(ep) ==
    CASE ep \in {"yfinance", "mospi_pdf", "mospi_page", "tradingeconomics"} -> {}
      [] OTHER -> {10}
Timeout(ep) ==
    CASE ep = "yfinance" -> {}
      [] ep = "mospi_pdf" -> {20}
      [] OTHER -> {10}

\* A request: the endpoint, what tells its URL from the endpoint's other URLs
\* (a sequence of words), and the timeout it carries
Req(ep, url) == [ep |-> ep, url |-> url, timeout |-> Timeout(ep)]

Pending == [k |-> "pending"]
Entry(req) == [req |-> req, out |-> Pending, dev |-> FALSE]

\* The log with the outcome of its last request filled in; dev says that the
\* answer was not the endpoint's nominal one
Answered(l, raw, dev) == [l EXCEPT ![Len(l)].out = raw, ![Len(l)].dev = dev]

\* ------------------------------------------------ what endpoints answer
\* World Bank: [metadata, [observation]] is the nominal answer
WbMeta == Dict([page |-> Num(1, 1)])
WbObs(val, date) == Json(List(<<WbMeta, List(<<Dict([value |-> val, date |-> date])>>)>>))
WbNominal(is_gdp) ==
    {WbObs(IF is_gdp THEN Num(2000000000, 1) ELSE Num(571, 10), Str("2023"))}
WbFaulty ==
    { NetError, NonJSON,
      Json(List(<<WbMeta>>)),
      Json(List(<<WbMeta, Null>>)),
      Json(List(<<WbMeta, List(<<>>)>>)),
      Json(Dict([message |-> Str("Invalid value")])),
      Json(Num(5, 1)),
      Json(List(<<WbMeta, Num(7, 1)>>)),
      Json(List(<<WbMeta, List(<<Dict([date |-> Str("2023")])>>)>>)),
      Json(List(<<WbMeta, List(<<Dict([value |-> Num(3, 1)])>>)>>)),
      WbObs(Null, Str("2023")),
      WbObs(Str("n/a"), Str("2023")),
      WbObs(List(<<>>), Str("2023")),
      Json(Str("ab")) }

\* EODHD: [{"close": .., "date": ..}] is the nominal answer
BondNominal == {Json(List(<<Dict([close |-> Num(685, 100), date |-> Str("2024-03-01")])>>))}
BondFaulty ==
    { NetError, NonJSON,
      Json(List(<<>>)),
      Json(Dict([error |-> Str("Unauthorized")])),
      Json(Str("Forbidden")),
      Json(List(<<Dict([date |-> Str("2024-03-01")])>>)),
      Json(List(<<Dict([close |-> Num(685, 100)])>>)),
      Json(List(<<Dict([close |-> Null, date |-> Str("2024-03-01")])>>)),
      Json(List(<<Dict([close |-> Str("NA"), date |-> Str("2024-03-01")])>>)),
      Json(List(<<Num(1, 1)>>)) }

\* yfinance: a frame whose last row is the latest close
YfNominal ==
    {Hist(<<[Close |-> Num(2249000, 100), Date |-> Date(2024, 2, 29)],
            [Close |-> Num(2250050, 100), Date |-> Date(2024, 3, 1)]>>)}
YfFaulty == {YfError, Hist(<<>>)}

\* metalpriceapi: {"rates": {symbol: rate}, "timestamp": seconds}
MetalAnswer(symbol, rate, ts) ==
    Json(Dict([rates |-> Dict([s \in {symbol} |-> rate]), timestamp |-> ts]))
MetalNominal(symbol) == {MetalAnswer(symbol, Num(1, 2000), Num(1709251200, 1))}
MetalFaulty(symbol) ==
    { NetError, NonJSON,
      Json(Dict([success |-> Null])),
      Json(Dict([rates |-> Dict([USD |-> Num(1, 1)]), timestamp |-> Num(1709251200, 1)])),
      Json(Dict([rates |-> Dict([s \in {symbol} |-> Num(1, 2000)])])),
      Json(List(<<>>)),
      MetalAnswer(symbol, Num(0, 1), Num(1709251200, 1)),
      MetalAnswer(symbol, Str("0.0005"), Num(1709251200, 1)),
      MetalAnswer(symbol, Null, Num(1709251200, 1)),
      MetalAnswer(symbol, Num(1, 2000), Str("now")) }

\* Trading Economics
TeNominal == {[net |-> "ok", m |-> TRUE, price |-> Num(8250, 100), month |-> "March", day |-> 1, year |-> 2024]}
TeFaulty ==
    { NetError, [net |-> "ok", m |-> FALSE],
      [net |-> "ok", m |-> TRUE, price |-> Num(8250, 100), month |-> "Mar", day |-> 1, year |-> 2024],
      [net |-> "ok", m |-> TRUE, price |-> Num(8250, 100), month |-> "February", day |-> 30, year |-> 2024] }

\* MoSPI index page and PDF
LinkMar24 == <<"/", "files/", "CPI", "_PR_", "1", "2", "Mar", "2", "4", ".pdf">>
LinkFeb24 == <<"https://host/", "cpi", "_", "1", "2", "Feb", "2", "4", ".pdf">>
LinkPlain == <<"files/", "CPI", "_note", ".pdf">>
LinkOther == <<"/", "files/", "annual_report_", "Mar", "2", "4", ".pdf">>
LinkFeb31 == <<"//host/", "CPI", "_", "3", "1", "Feb", "2", "4", ".pdf">>
PageNominal == {Page(<<LinkOther, LinkFeb24, LinkMar24>>), Page(<<LinkPlain>>)}
PageFaulty == {NetError, Page(<<>>), Page(<<LinkOther>>), Page(<<LinkMar24, LinkFeb31>>)}

PdfNominal == {PdfText(<<Num(509, 100)>>, <<"February", 2024>>)}
PdfFaulty ==
    { NetError, NotPdf,
      PdfText(<<>>, <<"February", 2024>>),
      PdfText(<<Num(509, 100)>>, <<>>),
      PdfText(<<>>, <<>>) }

\* --------------------------------------------------------- the machine
M == Metrics[idx]

\* The request that is in flight, the last of the log
Current == log[Len(log)].req

\* The fetch in progress has met a deviating answer already
Disturbed == \E i \in 1..Len(log) : log[i].dev

\* A fetch meets its first deviating answer only while the budget lasts
Budget(resp, nominal) ==
    /\ resp \in nominal \/ Disturbed \/ faults < budget
    /\ faults' = IF resp \in nominal \/ Disturbed THEN faults ELSE faults + 1

\* main() calls the fetch function of entry idx, whose first statement
\* that leaves the process is the request req
Enter(req, where) ==
    /\ inflight' = inflight \cup {req}
    /\ log' = <<Entry(req)>>
    /\ started' = Append(started, <<M.group, M.metric>>)
    /\ at' = where
    /\ frame' = <<>>
    /\ UNCHANGED <<METALPRICE_API_KEY, pc, idx, data, last_updated, file, opens, runs, faults,
                   budget, cpi_links, cpi_pick>>

ChainWithoutWaiting(raw, dev, req, where, locals) ==
    /\ inflight' = inflight \cup {req}
    /\ log' = Append(Answered(log, raw, dev), Entry(req))
    /\ at' = where
    /\ frame' = locals
    /\ UNCHANGED <<METALPRICE_API_KEY, pc, idx, started, data, last_updated, file, opens, runs,
                   budget, cpi_links, cpi_pick>>

\* The request in flight is answered (raw: what the try block made of it) and
\* the function goes on to a further request
Chain(raw, dev, req, where, locals) ==
    /\ inflight' = (inflight \ {Current}) \cup {req}
    /\ log' = Append(Answered(log, raw, dev), Entry(req))
    /\ at' = where
    /\ frame' = locals
    /\ UNCHANGED <<METALPRICE_API_KEY, pc, idx, started, data, last_updated, file, opens, runs,
                   budget, cpi_links, cpi_pick>>

\* The request in flight is answered and the fetch function ends with result:
\* a return value, which main() merges into its entry, or an exception, which
\* nothing in main() catches
Complete(raw, dev, result) ==
    /\ inflight' = inflight \ {Current}
    /\ log' = Answered(log, raw, dev)
    /\ frame' = <<>>
    /\ at' = IF result.k = "ret" /\ idx < NMetrics THEN "call" ELSE "idle"
    /\ IF result.k = "ret"
       THEN /\ data' = Append(data, MergeRecord(M.metric, result.v))
            /\ idx' = IF idx < NMetrics THEN idx + 1 ELSE idx
            /\ pc' = IF idx < NMetrics THEN "fetch" ELSE "dump"
       ELSE /\ pc' = "crashed"
            /\ UNCHANGED <<data, idx>>
    /\ UNCHANGED <<METALPRICE_API_KEY, started, last_updated, file, opens, runs,
                   budget, cpi_links, cpi_pick>>

Calling(fn) == pc = "fetch" /\ at = "call" /\ M.fn = fn

\* if __name__ == "__main__": main()  -- a process starts main(), which reads
\* the clock and begins to evaluate the dictionary literal
StartRun ==
    /\ pc' = "fetch" /\ idx' = 1 /\ at' = "call"
    /\ last_updated' = Now
    /\ data' = <<>> /\ log' = <<>> /\ started' = <<>> /\ frame' = <<>> /\ opens' = 0
    /\ UNCHANGED <<METALPRICE_API_KEY, inflight, file, runs, faults, budget, cpi_links, cpi_pick>>

MainStart == pc = "idle" /\ runs = 0 /\ StartRun

\* The script is started again after an earlier run has ended
Rerun == pc = "idle" /\ runs >= 1 /\ runs < MaxRuns /\ StartRun

Call_worldbank ==
    /\ Calling("get_worldbank_data")
    /\ Enter(Req("worldbank", <<M.a1, M.a2>>), "wb")

Recv_worldbank_retry ==
    /\ pc = "fetch" /\ at = "wb"
    /\ \E resp \in WbNominal(M.is_gdp) \cup WbFaulty :
        /\ Budget(resp, WbNominal(M.is_gdp))
        /\ IF worldbank_try(resp, M.is_gdp).k = "raise" /\ Len(log) < 2
           THEN Chain(worldbank_try(resp, M.is_gdp), TRUE, Current, "wb", <<>>)
           ELSE Complete(worldbank_try(resp, M.is_gdp), resp \notin WbNominal(M.is_gdp),
                         get_worldbank_data(resp, M.is_gdp))

Recv_worldbank ==
    /\ pc = "fetch" /\ at = "wb"
    /\ \E resp \in WbNominal(M.is_gdp) \cup WbFaulty :
        /\ Budget(resp, WbNominal(M.is_gdp))
        /\ Complete(worldbank_try(resp, M.is_gdp), resp \notin WbNominal(M.is_gdp),
                    get_worldbank_data(resp, M.is_gdp))

Call_eodhd ==
    /\ Calling("get_eodhd_bond")
    /\ Enter(Req("eodhd", <<M.a1>>), "bond")

Recv_eodhd ==
    /\ pc = "fetch" /\ at = "bond"
    /\ \E resp \in BondNominal \cup BondFaulty :
        /\ Budget(resp, BondNominal)
        /\ Complete(eodhd_try(resp), resp \notin BondNominal, get_eodhd_bond(resp))

Call_yfinance ==
    /\ Calling("get_yfinance_data")
    /\ Enter(Req("yfinance", <<M.a1>>), "yf")

Recv_yfinance ==
    /\ pc = "fetch" /\ at = "yf"
    /\ \E resp \in YfNominal \cup YfFaulty :
        /\ Budget(resp, YfNominal)
        /\ Complete(yfinance_try(resp, ""), resp \notin YfNominal, get_yfinance_data(resp, ""))

\* get_metal_price: the metals API when the key is there, else the fallback
Call_metal ==
    /\ Calling("get_metal_price")
    /\ IF KeyPresent(METALPRICE_API_KEY)
       THEN Enter(Req("metalpriceapi", <<M.a1>>), "metal")
       ELSE Enter(Req("yfinance", <<M.a2>>), "metal_yf")

Recv_metal ==
    /\ pc = "fetch" /\ at = "metal"
    /\ \E resp \in MetalNominal(M.a1) \cup MetalFaulty(M.a1) :
        /\ Budget(resp, MetalNominal(M.a1))
        /\ LET att == metal_attempt(resp, M.a1)
           IN IF att.k = "fall"
              THEN Chain(metal_try(resp, M.a1), resp \notin MetalNominal(M.a1),
                         Req("yfinance", <<M.a2>>), "metal_yf", <<>>)
              ELSE Complete(metal_try(resp, M.a1), resp \notin MetalNominal(M.a1), att)

Recv_metal_yf ==
    /\ pc = "fetch" /\ at = "metal_yf"
    /\ \E resp \in YfNominal \cup YfFaulty :
        /\ Budget(resp, YfNominal)
        /\ Complete(yfinance_try(resp, "$"), resp \notin YfNominal, get_yfinance_data(resp, "$"))

\* get_brent_crude: Yahoo Finance first, Trading Economics when it gave "N/A"
Call_brent ==
    /\ Calling("get_brent_crude")
    /\ Enter(Req("yfinance", <<"BZ=F">>), "brent_yf")

Recv_brent_yf ==
    /\ pc = "fetch" /\ at = "brent_yf"
    /\ \E resp \in YfNominal \cup YfFaulty :
        /\ Budget(resp, YfNominal)
        /\ LET d == get_yfinance_data(resp, "$")
           IN IF d.k = "ret" /\ ~PrimaryUsable(d.v)
              THEN Chain(yfinance_try(resp, "$"), resp \notin YfNominal,
                         Req("tradingeconomics", <<"commodity/brent-crude-oil">>), "brent_te", <<d.v>>)
              ELSE Complete(yfinance_try(resp, "$"), resp \notin YfNominal, d)

Recv_brent_te ==
    /\ pc = "fetch" /\ at = "brent_te"
    /\ \E resp \in TeNominal \cup TeFaulty :
        /\ Budget(resp, TeNominal)
        /\ Complete(brent_fallback_try(resp), resp \notin TeNominal, brent_fallback(resp))

\* get_mospi_cpi_latest: the index page, then the PDF of latest_url
Call_mospi ==
    /\ Calling("get_mospi_cpi_latest")
    /\ Enter(Req("mospi_page", <<"cpi">>), "cpi_page")

Recv_mospi_page ==
    /\ pc = "fetch" /\ at = "cpi_page"
    /\ \E resp \in PageNominal \cup PageFaulty :
        /\ Budget(resp, PageNominal)
        /\ LET o == TryExcept(latest_url_try(resp))
           IN IF o.k = "call"
              THEN Chain(latest_url_try(resp), resp \notin PageNominal,
                         Req("mospi_pdf", o.url), "cpi_pdf", <<o.url>>)
              ELSE Complete(latest_url_try(resp), resp \notin PageNominal, OrPlaceholder(o))

Recv_mospi_pdf ==
    /\ pc = "fetch" /\ at = "cpi_pdf"
    /\ \E resp \in PdfNominal \cup PdfFaulty :
        /\ Budget(resp, PdfNominal)
        /\ Complete(extract_try(resp, frame[1]), resp \notin PdfNominal,
                    OrPlaceholder(TryExcept(_extract_cpi_from_pdf(resp, frame[1]))))

\* with open("data.json", "w") as f: json.dump(data, f, indent=4)
MainWrite ==
    /\ pc = "dump"
    /\ opens' = opens + 1
    /\ file' = Dump(OpenW(file), Snapshot(last_updated, data))
    /\ pc' = "idle"
    /\ runs' = runs + 1
    /\ UNCHANGED <<METALPRICE_API_KEY, idx, at, frame, inflight, log, started, data, last_updated,
                   faults, budget, cpi_links, cpi_pick>>

\* The state before the script is first started; b is the budget of
\* deviating answers
InitMain(b) ==
    /\ METALPRICE_API_KEY \in {Null, Str(""), Str("secret")}
    /\ pc = "idle" /\ idx = 0 /\ at = "idle"
    /\ frame = <<>> /\ inflight = {} /\ log = <<>> /\ started = <<>>
    /\ data = <<>> /\ last_updated = Str("") /\ file = <<>>
    /\ opens = 0 /\ runs = 0 /\ faults = 0 /\ budget = b

Init == InitMain(MaxFaults) /\ cpi_links = <<>> /\ cpi_pick = Pending

Fetch ==
    \/ Call_worldbank \/ Recv_worldbank
    \/ Call_eodhd \/ Recv_eodhd
    \/ Call_yfinance \/ Recv_yfinance
    \/ Call_metal \/ Recv_metal \/ Recv_metal_yf
    \/ Call_brent \/ Recv_brent_yf \/ Recv_brent_te
    \/ Call_mospi \/ Recv_mospi_page \/ Recv_mospi_pdf

Next == MainStart \/ Fetch \/ MainWrite

Spec == Init /\ [][Next]_vars

\* Once started, a run is not held up: the interpreter takes its next step and
\* every request is answered (it returns, fails or times out)
FairSpec == Spec /\ WF_vars(Fetch) /\ WF_vars(MainWrite)

\* The script started time and again (by a scheduler, by hand)
InitRuns == InitMain(MaxRunFaults) /\ cpi_links = <<>> /\ cpi_pick = Pending
NextRuns == Next \/ Rerun
SpecRuns == InitRuns /\ [][NextRuns]_vars

\* ------------------------------------------- the choice of latest_url
\* Links an index page may carry, each naming a calendar date or none
LinkPool ==
    { <<"/", "CPI", "_PR_", "1", "2", "Mar", "2", "4", ".pdf">>,
      <<"files/", "cpi", "_", "5", "Apr", "2", "4", ".pdf">>,
      <<"/", "CPI", "_", "MAR", "2", "4", ".pdf">>,
      <<"https://host/", "CPI", "_", "Sept", "2", "3", ".pdf">>,
      <<"/", "CPI", "_", "Dec", "2", "0", "2", "3", ".pdf">>,
      <<"/", "CPI", "_", "Jan", "2", "0", "2", "5", ".pdf">>,
      <<"//host/", "CPI", "_", "3", "JAN", "2", "0", "2", "4", ".pdf">>,
      <<"/", "CPI", "_note", ".pdf">>,
      <<"/", "report_", "1", "2", "Mar", "2", "5", ".pdf">> }

LinkLists == UNION {[1..n -> LinkPool] : n \in 1..MaxLinks}

InitCPI ==
    /\ InitMain(0)
    /\ cpi_links \in LinkLists
    /\ cpi_pick = Pending

\* get_mospi_cpi_latest on an index page that carries the links cpi_links
SelectLatest ==
    /\ cpi_pick = Pending
    /\ cpi_pick' = latest_url_try(Page(cpi_links))
    /\ UNCHANGED <<METALPRICE_API_KEY, pc, idx, at, frame, inflight, log, started, data,
                   last_updated, file, opens, runs, faults, budget, cpi_links>>

SpecCPI == InitCPI /\ [][SelectLatest]_vars

\* ============================================================== claims
NA == Str("N/A")

\* The attempt on a source came to nothing: an exception, or no return
Failed(e) == e.out.k \in {"raise", "fall"}

\* A fetch function has returned to main() and nothing was called since: the
\* log is that of entry Len(data), whose record is the last of data
Returned == pc \in {"fetch", "dump", "idle"} /\ at \in {"call", "idle"} /\ Len(data) >= 1
LastMetric == Metrics[Len(data)]
LastResult == Record(data[Len(data)].fields.value, data[Len(data)].fields.date)

NoDuplicateRequest == \A i, j \in 1..Len(log) : i # j => log[i].req # log[j].req

\* The records entry i gets in a run whose endpoints all answer nominally
Undisturbed(i) ==
    LET e == Metrics[i]
        results ==
          CASE e.fn = "get_worldbank_data" ->
                 {get_worldbank_data(r, e.is_gdp).v : r \in WbNominal(e.is_gdp)}
            [] e.fn = "get_eodhd_bond" -> {get_eodhd_bond(r).v : r \in BondNominal}
            [] e.fn = "get_yfinance_data" -> {get_yfinance_data(r, "").v : r \in YfNominal}
            [] e.fn = "get_metal_price" ->
                 IF METALPRICE_API_KEY \in {Null, Str("")}
                 THEN {get_yfinance_data(r, "$").v : r \in YfNominal}
                 ELSE {metal_try(r, e.a1).v : r \in MetalNominal(e.a1)}
            [] e.fn = "get_brent_crude" -> {get_yfinance_data(r, "$").v : r \in YfNominal}
            [] e.fn = "get_mospi_cpi_latest" ->
                 {_extract_cpi_from_pdf(r, latest_url_try(pg).url).v :
                     r \in PdfNominal, pg \in PageNominal}
    IN {MergeRecord(e.metric, r) : r \in results}

\* The run has ended with data.json written
Written == pc = "idle" /\ runs = 1 /\ opens = 1 /\ file # <<>>

\* C1 -- Failure isolation: whatever way a fetch fails, no exception reaches
\* main() (the run never ends in a traceback); the fetch adds its own record
\* and leaves the records built before it as they were; the records that
\* differ from those of an undisturbed run are at most as many as the
\* fetches that met a failure; and the run goes on to write data.json.
C1_FailureIsolation ==
    /\ [](pc # "crashed")
    /\ [](Cardinality({i \in 1..Len(data) : data[i] \notin Undisturbed(i)}) <= faults)
    /\ [][pc = "fetch" =>
            \/ data' = data
            \/ Len(data') = Len(data) + 1 /\ SubSeq(data', 1, Len(data)) = data]_vars
    /\ (pc = "fetch" ~> Written)

\* A fetch (the last, Brent crude) failed by exceptions at both of its
\* sources, the first record is that of an undisturbed run, and data.json is
\* written.
C1_Witness ==
    /\ Written
    /\ Len(log) = 2 /\ log[1].out.k = "raise" /\ log[2].out.k = "raise"
    /\ data[NMetrics].fields.value = NA
    /\ data[1] \in Undisturbed(1)

\* C2 -- Single serialization and overwrite: data.json is not opened while
\* the fetches run; when it has been opened it was opened once, all 17
\* fetches had returned and no request was outstanding; after every
\* completed run the file holds exactly one document, the snapshot of the
\* last run.
C2_SingleWriteOverwrite ==
    /\ pc \in {"fetch", "dump", "crashed"} => opens = 0
    /\ opens > 0 => pc = "idle" /\ opens = 1 /\ Len(data) = 17 /\ Len(started) = 17 /\ inflight = {}
    /\ runs = 0 => file = <<>>
    /\ pc = "idle" /\ runs >= 1 =>
         /\ opens = 1
         /\ file = <<Snapshot(last_updated, data)>>
         /\ last_updated = Str("T" \o ToString(runs))

\* The second run has ended and its snapshot has no "N/A", while a fetch of
\* the first run had met a failure.
C2_Witness ==
    /\ pc = "idle" /\ runs = 2 /\ faults = 1
    /\ file[1].fields.last_updated = Str("T2")
    /\ \A i \in 1..Len(data) : data[i] \in Undisturbed(i)

DenotedDate(l) ==
    LET at_ == {i \in 1..Len(l) : MonthYearAt(l, i)}
    IN IF at_ = {} THEN 0
       ELSE LET i == CHOOSE k \in at_ : \A j \in at_ : k <= j
                year == IF IsDigit(l, i + 3) /\ IsDigit(l, i + 4)
                        THEN 100 * TwoDigits(l, i + 1) + TwoDigits(l, i + 3)
                        ELSE 2000 + TwoDigits(l, i + 1)
                day == IF IsDigit(l, i - 1)
                       THEN (IF IsDigit(l, i - 2) THEN TwoDigits(l, i - 2) ELSE DigitVal(l[i - 1]))
                       ELSE 1
            IN year * 10000 + months[l[i]] * 100 + day

\* C4 -- Most-recent CPI PDF: for every non-empty list of CPI links,
\* get_mospi_cpi_latest passes on a link (it calls _extract_cpi_from_pdf)
\* whose file name denotes a date no other CPI link's file name is later
\* than, and it passes on a link without a date only when no CPI link has one.
C4_MostRecentPdf ==
    cpi_pick # Pending /\ Len(FilterCPI(cpi_links)) > 0 =>
        /\ cpi_pick.k = "call"
        /\ \A i \in 1..Len(FilterCPI(cpi_links)) :
               DenotedDate(FilterCPI(cpi_links)[i]) <= DenotedDate(cpi_pick.url)

\* C5 -- Output shape: every document written has exactly the keys
\* last_updated, india, us, china, commodities; the four lists hold the
\* records of the 6, 4, 4 and 3 metrics in the order of main(); every record
\* has exactly the keys metric, value, date; and a record's metric is the
\* name main() gave it.
ExpectedNames ==
    [india |-> <<"GDP", "Debt", "Fiscal deficit (% of GDP)", "CPI", "10 yr bond yield", "Mkt Cap NSE">>,
     us |-> <<"GDP", "Debt", "10 yr bond yield", "Mkt Cap (Index proxy)">>,
     china |-> <<"GDP", "Debt", "10 yr bond yield", "Mkt Cap (Index proxy)">>,
     commodities |-> <<"Gold price", "Silver price", "Brent crude">>]

ShapeOfList(lst, names) ==
    /\ lst.t = "list" /\ Len(lst.items) = Len(names)
    /\ \A i \in 1..Len(names) :
        /\ lst.items[i].t = "dict"
        /\ DOMAIN lst.items[i].fields = {"metric", "value", "date"}
        /\ lst.items[i].fields.metric = Str(names[i])

C5_OutputShape ==
    /\ \A n \in 1..Len(file) :
        /\ file[n].t = "dict"
        /\ DOMAIN file[n].fields = {"last_updated", "india", "us", "china", "commodities"}
        /\ \A g \in DOMAIN ExpectedNames : ShapeOfList(file[n].fields[g], ExpectedNames[g])
        /\ Len(file[n].fields.india.items) = 6 /\ Len(file[n].fields.us.items) = 4
        /\ Len(file[n].fields.china.items) = 4 /\ Len(file[n].fields.commodities.items) = 3
    /\ \A i \in 1..Len(data) :
        /\ DOMAIN data[i].fields = {"metric", "value", "date"}
        /\ data[i].fields.metric = Str(Metrics[i].metric)

\* A document is written in which one record is the placeholder and another
\* carries a value.
C5_Witness ==
    /\ Written /\ faults >= 1
    /\ \E i, j \in 1..Len(file[1].fields.india.items) :
        /\ file[1].fields.india.items[i].fields.value = NA
        /\ file[1].fields.india.items[j].fields.value # NA

\* C6 -- Sequential calls: at most one request is in flight at any time, a
\* fetch function that is waiting has exactly its latest request in flight,
\* and the fetches start in the order of main(), whatever came of the
\* earlier ones.
ExpectedOrder ==
    << <<"india", "GDP">>, <<"india", "Debt">>, <<"india", "Fiscal deficit (% of GDP)">>,
       <<"india", "CPI">>, <<"india", "10 yr bond yield">>, <<"india", "Mkt Cap NSE">>,
       <<"us", "GDP">>, <<"us", "Debt">>, <<"us", "10 yr bond yield">>, <<"us", "Mkt Cap (Index proxy)">>,
       <<"china", "GDP">>, <<"china", "Debt">>, <<"china", "10 yr bond yield">>,
       <<"china", "Mkt Cap (Index proxy)">>,
       <<"commodities", "Gold price">>, <<"commodities", "Silver price">>,
       <<"commodities", "Brent crude">> >>

C6_SequentialCalls ==
    /\ Cardinality(inflight) <= 1
    /\ pc = "fetch" /\ at # "call" => inflight = {Current}
    /\ pc # "fetch" \/ at = "call" => inflight = {}
    /\ Len(started) <= Len(ExpectedOrder)
    /\ started = SubSeq(ExpectedOrder, 1, Len(started))
    /\ pc = "fetch" => Len(started) = IF at = "call" THEN Len(data) ELSE Len(data) + 1

\* Every fetch has started, two of them were disturbed, and the one request
\* in flight is the Brent fallback, issued after the primary failed.
C6_Witness ==
    /\ Len(started) = 17 /\ at = "brent_te" /\ faults = 2
    /\ Cardinality(inflight) = 1 /\ Failed(log[1])

\* C7 (as amended) -- Termination: every requests.get call carries a fixed
\* timeout (10 s, 20 s for the PDF); the yfinance history() calls are given
\* none by the script; a fetch function issues at most two requests; and if
\* every request is answered (returns or fails), a run that has started ends
\* with data.json written.
C7_TerminationRequestsTimeouts ==
    /\ [](\A r \in inflight : r.ep # "yfinance" => r.timeout \in {{10}, {20}})
    /\ [](\A r \in inflight : r.ep = "yfinance" => r.timeout = {})
    /\ [](Len(log) <= 2 /\ NoDuplicateRequest)
    /\ (pc = "fetch" ~> Written)

\* A run has ended with data.json written although its CPI fetch failed at
\* the request for the PDF (a timeout is such a failure).
C7_Witness ==
    /\ Written /\ faults >= 1
    /\ data[4].fields.value = NA /\ data[4].fields.date = NA
    /\ data[5] \in Undisturbed(5)

\* C7 (as stated) -- Termination under per-request timeout: every request
\* the script issues carries a fixed timeout, and if every request is
\* answered a run that has started ends with data.json written.
C7_TerminationEveryTimeout ==
    /\ [](\A r \in inflight : r.timeout # {})
    /\ [](Len(log) <= 2 /\ NoDuplicateRequest)
    /\ (pc = "fetch" ~> Written)

\* C8 -- Metal price fallback.  The key counts as set when the if of
\* get_metal_price takes it as true: a key that is None or empty is unset.
\* The metals API is contacted only when the key is set; the fallback is
\* called, with the fallback ticker, exactly when the key is unset or the
\* metals API attempt failed; after a successful attempt the fallback is not
\* contacted; and the result is the placeholder only if the fallback failed.
KeyIsSet == METALPRICE_API_KEY \notin {Null, Str("")}
MetalCall ==
    \/ pc = "fetch" /\ at \in {"metal", "metal_yf"}
    \/ Returned /\ LastMetric.fn = "get_metal_price"
MetalEntry == IF at \in {"metal", "metal_yf"} THEN M ELSE LastMetric
ApiTries == {i \in 1..Len(log) : log[i].req.ep = "metalpriceapi"}
FallbackTries == {i \in 1..Len(log) : log[i].req.ep = "yfinance"}

C8_MetalFallback ==
    /\ \A r \in inflight : r.ep = "metalpriceapi" => KeyIsSet
    /\ MetalCall =>
        /\ ApiTries # {} => KeyIsSet
        /\ \A i \in 1..Len(log) : log[i].req.ep \in {"metalpriceapi", "yfinance"}
        /\ \A i \in FallbackTries : log[i].req.url = <<MetalEntry.a2>>
        /\ FallbackTries # {} <=> (~KeyIsSet \/ \E i \in ApiTries : Failed(log[i]))
        /\ (\E i \in ApiTries : log[i].out.k = "ret") => FallbackTries = {}
        /\ Returned =>
            /\ LastResult = Placeholder => \E i \in FallbackTries : Failed(log[i])
            /\ LastResult # Placeholder => SubSeq(LastResult.fields.value.s, 1, 1) = "$"

\* The key is set, the metals API answered a rate of 0, and the fallback
\* gave the price.
C8_Witness ==
    /\ Returned /\ LastMetric.fn = "get_metal_price" /\ KeyIsSet
    /\ Len(log) = 2 /\ log[1].out = Raise("ZeroDivisionError")
    /\ log[2].out.k = "ret" /\ LastResult = log[2].out.v

\* C9 -- Brent crude fallback ordering: the first request is the primary
\* (Yahoo Finance, BZ=F); Trading Economics is requested second and only
\* when the primary result has value "N/A"; a successful primary result is
\* returned as it is, with no further request; and the placeholder is
\* returned only when primary and fallback both failed.
BrentCall ==
    \/ pc = "fetch" /\ at \in {"brent_yf", "brent_te"}
    \/ Returned /\ LastMetric.fn = "get_brent_crude"

C9_BrentOrdering ==
    BrentCall =>
        /\ log[1].req.ep = "yfinance" /\ log[1].req.url = <<"BZ=F">>
        /\ \A i \in 1..Len(log) :
             log[i].req.ep = "tradingeconomics" => i = 2 /\ Failed(log[1])
        /\ at = "brent_te" => frame[1].fields.value = NA
        /\ Returned =>
            /\ log[1].out.k = "ret" => Len(log) = 1 /\ LastResult = log[1].out.v
            /\ Failed(log[1]) => Len(log) = 2 /\ log[2].req.ep = "tradingeconomics"
            /\ LastResult = Placeholder => Len(log) = 2 /\ Failed(log[1]) /\ Failed(log[2])

\* The primary failed and the fallback gave the price.
C9_Witness ==
    /\ Returned /\ LastMetric.fn = "get_brent_crude"
    /\ Len(log) = 2 /\ Failed(log[1]) /\ log[2].out.k = "ret"
    /\ LastResult = log[2].out.v /\ LastResult # Placeholder

\* C10 -- Value/date pairing: every record but the CPI's, in the dictionary
\* being built and in every document written, has value "N/A" exactly when
\* its date is "N/A".
Paired(rec) == (rec.fields.value = NA) <=> (rec.fields.date = NA)

C10_ValueDatePairing ==
    /\ \A i \in 1..Len(data) : Metrics[i].fn # "get_mospi_cpi_latest" => Paired(data[i])
    /\ \A n \in 1..Len(file) : \A g \in {"india", "us", "china", "commodities"} :
         \A i \in 1..Len(file[n].fields[g].items) :
            file[n].fields[g].items[i].fields.metric # Str("CPI") => Paired(file[n].fields[g].items[i])

\* A World Bank observation came with a date and a null value, and the
\* record has "N/A" for both.
C10_Witness ==
    /\ Returned /\ LastMetric.fn = "get_worldbank_data"
    /\ log[1].dev /\ log[1].out = Ret(Placeholder)
    /\ LastResult = Placeholder

====
